---- MODULE Spec2Model ----
(***************************************************************************)
(* Pairs-trading backtest (src/backtest.py, run_backtest): the position    *)
(* state machine driven by the z-score stream, the PnL / cost loop and the *)
(* summary metrics.                                                        *)
(*                                                                         *)
(* Numbers are fixed point: a float f of the program is the integer        *)
(* f * One.  Prices are kept as log-prices, so that the program's          *)
(* np.log(px / prev_x) is the difference px - prev_x of the model.         *)
(* Sequences are 1-based: the program's s.iloc[k] is Iloc(s, k) = s[k+1].  *)
(*                                                                         *)
(* The hedge-ratio filter (src/kalman_filter.py, KalmanFilterSDA) is       *)
(* modelled apart, in SpecKalman, on binary floating-point numbers with a  *)
(* significand of PrecBits bits, rounded to nearest, ties to even.         *)
(*                                                                         *)
(* Three more programs are modelled, each in a specification of its own:   *)
(* optimize.objective (SpecObjective), pairs_nasdaq100.backtest_pair       *)
(* (SpecPair) and backtesting.backtest_strategy (SpecStrategy).            *)
(***************************************************************************)
EXTENDS Integers, Sequences, FiniteSets, TLC

\* ------------------------------------------------------------------ bounds
\* Largest number of aligned rows (len(df) after dropna) of an input.
MaxBars == 5
\* The same, for each of the two runs compared on a common prefix.
MaxBarsTwo == 4
\* Largest number of predict() / update() calls on one filter.
MaxCalls == 4
\* Largest number of z-score rows given to backtest_pair.
MaxPairBars == 4
\* Largest number of rows of signals given to backtest_strategy.
MaxStratBars == 4
\* Bits of the significand of a float (53 in the program's float64).
PrecBits == 8

\* ------------------------------------------------------- program constants
\* The fixed-point unit: the initial equity 1.0.
One == 10000
\* Minimum number of aligned rows (200 in the program, scaled to the model).
MinBars == 3
\* Default per-leg sizing 0.40.
Sizing == 4000
\* Trading days per year used for the daily borrow rate.
YearDays == 252

\* ------------------------------------------------------------------ inputs
\* z-score values of a bar; with the thresholds 1 and 3, 4 is beyond the
\* outer band, 3 and 1 are ties, 2 lies between the bands and 0 inside.
ZVals == {-4, -3, -2, -1, 0, 1, 2, 3, 4}
\* <<entry_z, exit_z>>: exit below entry, and the reverse (permitted).
Thresholds == {<<3, 1>>, <<1, 3>>}
\* A float that may be NaN.
NaN == [nan |-> TRUE, v |-> 0]
Num(k) == [nan |-> FALSE, v |-> k]
\* What run_kalman gives for one row: spread and hedge (defined or NaN) and
\* the z-score.  The z-score is NaN on a warm-up row or when the rolling
\* standard deviation is zero; it is never defined without spread and hedge.
SigIn == {[sp |-> TRUE, z |-> Num(k), h |-> TRUE] : k \in ZVals}
         \cup {[sp |-> TRUE, z |-> NaN, h |-> TRUE],
               [sp |-> FALSE, z |-> NaN, h |-> FALSE]}
\* A retained row of the PnL loop: the log-prices of the legs and the hedge.
BarIn == {[x |-> 0, y |-> 0, beta |-> 2],
          [x |-> 500, y |-> 0, beta |-> 2],
          [x |-> 0, y |-> 500, beta |-> -1]}
\* costs_bps / 10000 and borrow_annual, as fixed point; costs_bps = 10000
\* (bps = 1.0) takes the whole equity on the first trade.
CostVals == {0, 100, One}
BorrowVals == {0, 25200}

VARIABLES
    pc,             \* position in run_backtest
    n,              \* len(df) after dropna
    entry_z, exit_z, bps, borrow_daily, sizing,
    raw,            \* rows of df already passed through the keep mask
    keep,           \* keep mask, one entry per row passed
    zna,            \* z.isna(), one entry per row passed
    index,          \* df.index after df.loc[keep]: the rows retained
    pos,            \* pos, one entry per retained row evaluated
    zi,             \* z of the retained row evaluated last
    t,              \* loop variable of the PnL loop
    equity, equity_series, trades, roundtrip_wins,
    entries_idx, entry_sides, exits_idx,
    prev_x, prev_y,
    leg_notional,   \* leg_notional of the bar simulated last
    daily_rets,     \* daily_rets, each a float that may be non-finite
    final_equity, win_rate,
    rets,           \* rets: daily_rets after replace(inf, 0).fillna(0)
    equity_curve,   \* the "equity_curve" entry of the result
    \* second run, of an input that agrees with the first on rows 1..cut
    cut, n_b, pc_b, index_b, pos_b,
    \* a KalmanFilterSDA object
    kf_x,           \* self.x[0]
    kf_P,           \* self.P[0, 0]
    kf_Q,           \* self.Q[0, 0]
    kf_R,           \* self.R[0, 0]
    kf_S,           \* S[0, 0] of the last update()
    kf_calls,       \* the calls made on the object so far
    kf_before,      \* self.x[0] and self.P[0, 0] before the last call
    \* one trial of optimize.objective
    obj_pc,         \* position in objective
    z_entry, z_exit_hi, z_exit,
    bt_call,        \* the arguments entry_z, exit_z run_backtest was called with
    sharpe, mdd,    \* metrics["sharpe_daily"], metrics["max_drawdown_pct"]
    obj_ret,        \* the value returned by objective
    \* one call of pairs_nasdaq100.backtest_pair
    bp_pc,          \* position in backtest_pair
    bp_z,           \* z after dropna
    bp_pos,         \* pos after line 174
    \* one call of backtesting.backtest_strategy
    bs_pc,          \* position in backtest_strategy
    dates,          \* signals.index of the rows processed, as day numbers
    com, daily_borrow_rate, max_drawdown_pct,
    capital, available_capital, active_long, active_short,
    portfolio_values, peak_capital, daily_pl, last_trade_date,
    portfolio_value,
    price_AMD, price_MSFT,
    trades_history, winning_trades, losing_trades,
    total_profit, total_loss, total_trades, invested_capital,
    checks,         \* the risk checks made (line 197), one record per check
    closes,         \* the closes by the exit signal (lines 253-312)
    final_value, bs_win_rate, avg_profit, avg_loss, avg_holding_period

vars == <<pc, n, entry_z, exit_z, bps, borrow_daily, sizing, raw, keep, zna,
          index, pos, zi, t, equity, equity_series, trades, roundtrip_wins,
          entries_idx, entry_sides, exits_idx, prev_x, prev_y,
          leg_notional, daily_rets,
          final_equity, win_rate, rets, equity_curve,
          cut, n_b, pc_b, index_b, pos_b,
          kf_x, kf_P, kf_Q, kf_R, kf_S, kf_calls, kf_before,
          obj_pc, z_entry, z_exit_hi, z_exit, bt_call, sharpe, mdd, obj_ret,
          bp_pc, bp_z, bp_pos,
          bs_pc, dates, com, daily_borrow_rate, max_drawdown_pct,
          capital, available_capital, active_long, active_short,
          portfolio_values, peak_capital, daily_pl, last_trade_date,
          portfolio_value, price_AMD, price_MSFT, trades_history, winning_trades, losing_trades,
          total_profit, total_loss, total_trades, invested_capital,
          checks, closes,
          final_value, bs_win_rate, avg_profit, avg_loss, avg_holding_period>>

cfgVars == <<n, entry_z, exit_z, bps, borrow_daily, sizing>>
posVars == <<raw, keep, zna, index, pos, zi>>
pnlVars == <<t, equity, equity_series, trades, roundtrip_wins,
             entries_idx, entry_sides, exits_idx, prev_x, prev_y,
             leg_notional, daily_rets>>
outVars == <<final_equity, win_rate, rets, equity_curve>>
runBVars == <<cut, n_b, pc_b, index_b, pos_b>>
kfVars == <<kf_x, kf_P, kf_Q, kf_R, kf_S, kf_calls, kf_before>>
objVars == <<obj_pc, z_entry, z_exit_hi, z_exit, bt_call, sharpe, mdd, obj_ret>>
pairVars == <<bp_pc, bp_z, bp_pos>>
\* The variables of the programs modelled apart from run_backtest and the
\* filter.
bsParams == <<com, daily_borrow_rate, max_drawdown_pct>>
bsBook == <<capital, available_capital, active_long, active_short,
            trades_history, winning_trades, losing_trades,
            total_profit, total_loss, total_trades, invested_capital>>
bsRisk == <<portfolio_values, peak_capital, daily_pl, last_trade_date,
            portfolio_value>>
bsPrices == <<price_AMD, price_MSFT>>
bsOut == <<final_value, bs_win_rate, avg_profit, avg_loss, avg_holding_period>>
stratVars == <<bs_pc, dates, bsParams, bsBook, bsRisk, bsPrices, checks, closes,
              bsOut>>
extVars == <<objVars, pairVars, stratVars>>

\* ----------------------------------------------------------------- helpers
Iloc(s, k) == s[k + 1]
Last(s) == s[Len(s)]
Abs(a) == IF a < 0 THEN -a ELSE a
\* Fixed-point product.
Mul(a, b) == (a * b) \div One

\* Comparisons of a float that may be NaN with a number: false on NaN.
Gt(z, c) == ~z.nan /\ z.v > c
Lt(z, c) == ~z.nan /\ z.v < c
Notna(z) == ~z.nan

\* len(df) < 200: the input is too short.
TooShort_off(len) == len < MinBars + 1
TooShort(len) == len < MinBars

\* keep = spread.notna() & z.notna() & hedge.notna(), for one row.
KeepBar_all(sp, z, h) == TRUE
KeepBar(sp, z, h) == sp /\ Notna(z) /\ h

\* One pass of the position loop body: the position after a row with
\* z-score z, given the previous position prev.
NextPos_noties(prev, z, entry, exit) ==
    IF prev = 0
    THEN IF ~Lt(z, entry) THEN -1
         ELSE IF ~Gt(z, -entry) THEN 1
         ELSE prev
    ELSE IF ~Gt(z, exit) /\ ~Lt(z, -exit) THEN 0 ELSE prev
NextPos_flip(prev, z, entry, exit) ==
    IF prev = 0 \/ (prev = 1 /\ Gt(z, entry)) \/ (prev = -1 /\ Lt(z, -entry))
    THEN IF Gt(z, entry) THEN -1
         ELSE IF Lt(z, -entry) THEN 1
         ELSE prev
    ELSE IF Lt(z, exit) /\ Gt(z, -exit) THEN 0 ELSE prev
NextPos_reenter(prev, z, entry, exit) ==
    LET closed == prev # 0 /\ Lt(z, exit) /\ Gt(z, -exit)
    IN  IF prev = 0 \/ closed
        THEN IF Gt(z, entry) THEN -1
             ELSE IF Lt(z, -entry) THEN 1
             ELSE 0
        ELSE prev
NextPos(prev, z, entry, exit) ==
    IF prev = 0
    THEN IF Gt(z, entry) THEN -1
         ELSE IF Lt(z, -entry) THEN 1
         ELSE prev
    ELSE IF Lt(z, exit) /\ Gt(z, -exit) THEN 0 ELSE prev

\* The position of the first retained row: pos is created as zeros and the
\* loop starts at row 1.
FirstPos_open(z, entry) ==
    IF Gt(z, entry) THEN -1 ELSE IF Lt(z, -entry) THEN 1 ELSE 0
FirstPos(z, entry) == 0

\* The mask and the position loop applied to row `bar` of an input:
\* <<index, pos>> afterwards.
AfterBar(idx, p, bar, s, entry, exit) ==
    IF ~KeepBar(s.sp, s.z, s.h) THEN <<idx, p>>
    ELSE IF p = <<>> THEN <<<<bar>>, <<FirstPos(s.z, entry)>>>>
    ELSE <<Append(idx, bar), Append(p, NextPos(Last(p), s.z, entry, exit))>>

\* ------------------------------------------------------------ PnL and costs
\* (1 - bps) ** 2, the commission of the two legs.
CommFactor(b) == Mul(One - b, One - b)
\* equity *= (1 - bps) ** 2 on a position change.
AfterCommission_always(eq, p, p_prev, b) == Mul(eq, CommFactor(b))
AfterCommission(eq, p, p_prev, b) ==
    IF p # p_prev THEN Mul(eq, CommFactor(b)) ELSE eq

\* leg_notional = equity * sizing, on the current equity eq_now (after the
\* commission of this bar); eq_prev is the equity recorded for the bar before.
LegNotional_prev(eq_prev, eq_now, size) == Mul(eq_prev, size)
LegNotional(eq_prev, eq_now, size) == Mul(eq_now, size)

\* The rest of the loop body: PnL and borrow of one bar on the equity eq
\* (after commission) with per-leg notional ln; ret_x and ret_y are the log
\* returns of the legs.
AfterPnL_carry(eq, ln, p, beta, ret_x, ret_y, bd) ==
    IF p = 1
    THEN (eq - Mul(ln * Abs(beta), bd))
         + (Mul(ln, ret_x) - Mul(ln * beta, ret_y))
    ELSE (eq - Mul(ln, bd))
         + (-Mul(ln, ret_x) + Mul(ln * beta, ret_y))
AfterPnL(eq, ln, p, beta, ret_x, ret_y, bd) ==
    IF p = 1
    THEN (eq - Mul(ln * Abs(beta), bd))
         + (Mul(ln, ret_x) - Mul(ln * beta, ret_y))
    ELSE IF p = -1
    THEN (eq - Mul(ln, bd))
         + (-Mul(ln, ret_x) + Mul(ln * beta, ret_y))
    ELSE eq

\* equity / prev_equity - 1.0: non-finite (NaN or infinite) when the
\* previous equity is zero.
DailyRet(eq, prev_equity) ==
    IF prev_equity = 0 THEN NaN ELSE Num((eq * One) \div prev_equity - One)

\* .replace([np.inf, -np.inf], 0).fillna(0) on one daily return.
ReplaceFill(r) == IF r.nan THEN Num(0) ELSE r

\* The crude win detection on a close: the equity recorded for the last bar
\* is higher than the one before it.
IsWin(es) == Len(es) >= 2 /\ es[Len(es)] > es[Len(es) - 1]

\* The marker appended to entries_idx / exits_idx: the timestamp of the bar.
Marker(ts) == [time |-> ts]

\* win_rate = roundtrip_wins / trades * 100, in fixed point.
WinRate(wins, tr) == IF tr > 0 THEN (wins * 100 * One) \div tr ELSE 0

\* -------------------------------------------------------------------- Init
InitRun ==
    /\ pc = "start"
    /\ n \in 0..MaxBars
    /\ \E th \in Thresholds : entry_z = th[1] /\ exit_z = th[2]
    /\ bps \in CostVals
    /\ borrow_daily \in {b \div YearDays : b \in BorrowVals}
    /\ sizing = Sizing
    /\ raw = 0
    /\ keep = <<>>
    /\ zna = <<>>
    /\ index = <<>>
    /\ pos = <<>>
    /\ zi = NaN
    /\ t = 0
    /\ equity = One
    /\ equity_series = <<>>
    /\ trades = 0
    /\ roundtrip_wins = 0
    /\ entries_idx = <<>>
    /\ entry_sides = <<>>
    /\ exits_idx = <<>>
    /\ prev_x = 0
    /\ prev_y = 0
    /\ leg_notional = 0
    /\ daily_rets = <<>>
    /\ final_equity = 0
    /\ win_rate = 0
    /\ rets = <<>>
    /\ equity_curve = <<>>

\* No filter object is in use.
KfOff ==
    /\ kf_x = 0
    /\ kf_P = 0
    /\ kf_Q = 0
    /\ kf_R = 0
    /\ kf_S = 0
    /\ kf_calls = <<>>
    /\ kf_before = 0

\* No trial of objective is running.
ObjOff ==
    /\ obj_pc = "off"
    /\ z_entry = 0
    /\ z_exit_hi = 0
    /\ z_exit = 0
    /\ bt_call = <<>>
    /\ sharpe = NaN
    /\ mdd = 0
    /\ obj_ret = 0

\* No call of backtest_pair is running.
PairOff ==
    /\ bp_pc = "off"
    /\ bp_z = <<>>
    /\ bp_pos = <<>>

\* No call of backtest_strategy is running.
StratOff ==
    /\ bs_pc = "off"
    /\ dates = <<>>
    /\ com = 0
    /\ daily_borrow_rate = 0
    /\ max_drawdown_pct = 0
    /\ capital = 0
    /\ available_capital = 0
    /\ active_long = <<>>
    /\ active_short = <<>>
    /\ portfolio_values = <<>>
    /\ peak_capital = 0
    /\ daily_pl = 0
    /\ last_trade_date = 0
    /\ portfolio_value = 0
    /\ price_AMD = 0
    /\ price_MSFT = 0
    /\ trades_history = <<>>
    /\ winning_trades = 0
    /\ losing_trades = 0
    /\ total_profit = 0
    /\ total_loss = 0
    /\ total_trades = 0
    /\ invested_capital = 0
    /\ checks = <<>>
    /\ closes = <<>>
    /\ final_value = 0
    /\ bs_win_rate = 0
    /\ avg_profit = 0
    /\ avg_loss = 0
    /\ avg_holding_period = 0

ExtOff == ObjOff /\ PairOff /\ StratOff

Init ==
    /\ InitRun
    /\ KfOff
    /\ ExtOff
    /\ cut = 0
    /\ n_b = 0
    /\ pc_b = "off"
    /\ index_b = <<>>
    /\ pos_b = <<>>

\* ----------------------------------------------------------------- actions
\* Lines 38-58: the length check; a short input returns the inert result.
Start ==
    /\ pc = "start"
    /\ IF TooShort(n)
       THEN /\ pc' = "done"
            /\ final_equity' = One
            /\ win_rate' = 0
            /\ rets' = <<>>
            /\ equity_curve' = [k \in 1..n |-> NaN]
       ELSE /\ pc' = "pos"
            /\ UNCHANGED outVars
    /\ UNCHANGED <<cfgVars, posVars, pnlVars, runBVars, kfVars, extVars>>

\* Lines 66-71: a row whose spread, z or hedge is NaN is dropped by the mask.
DropBar ==
    /\ pc = "pos"
    /\ raw < n
    /\ \E s \in SigIn :
          /\ ~KeepBar(s.sp, s.z, s.h)
          /\ keep' = Append(keep, FALSE)
          /\ zna' = Append(zna, s.z.nan)
    /\ raw' = raw + 1
    /\ UNCHANGED <<pc, cfgVars, index, pos, zi, pnlVars, outVars, runBVars, kfVars, extVars>>

\* Lines 77-78: the first retained row; pos starts at 0 and the loop at 1.
FirstBar ==
    /\ pc = "pos"
    /\ raw < n
    /\ pos = <<>>
    /\ \E s \in SigIn :
          /\ KeepBar(s.sp, s.z, s.h)
          /\ keep' = Append(keep, TRUE)
          /\ zna' = Append(zna, s.z.nan)
          /\ zi' = s.z
          /\ index' = AfterBar(index, pos, raw + 1, s, entry_z, exit_z)[1]
          /\ pos' = AfterBar(index, pos, raw + 1, s, entry_z, exit_z)[2]
    /\ raw' = raw + 1
    /\ UNCHANGED <<pc, cfgVars, pnlVars, outVars, runBVars, kfVars, extVars>>

\* Lines 78-94: one iteration of the position loop on a retained row.
PosStep ==
    /\ pc = "pos"
    /\ raw < n
    /\ pos # <<>>
    /\ \E s \in SigIn :
          /\ KeepBar(s.sp, s.z, s.h)
          /\ keep' = Append(keep, TRUE)
          /\ zna' = Append(zna, s.z.nan)
          /\ zi' = s.z
          /\ index' = AfterBar(index, pos, raw + 1, s, entry_z, exit_z)[1]
          /\ pos' = AfterBar(index, pos, raw + 1, s, entry_z, exit_z)[2]
    /\ raw' = raw + 1
    /\ UNCHANGED <<pc, cfgVars, pnlVars, outVars, runBVars, kfVars, extVars>>

\* Lines 99-115: the start of the simulation; df["x"].iloc[0] raises an
\* IndexError when the mask retained no row.
PnLInit ==
    /\ pc = "pos"
    /\ raw = n
    /\ IF index = <<>>
       THEN /\ pc' = "error"
            /\ UNCHANGED pnlVars
       ELSE /\ pc' = "pnl"
            /\ t' = 1
            /\ equity' = One
            /\ equity_series' = <<One>>
            /\ trades' = 0
            /\ roundtrip_wins' = 0
            /\ entries_idx' = <<>>
            /\ entry_sides' = <<>>
            /\ exits_idx' = <<>>
            /\ daily_rets' = <<>>
            /\ leg_notional' = 0
            /\ \E b \in BarIn : prev_x' = b.x /\ prev_y' = b.y
    /\ UNCHANGED <<cfgVars, posVars, outVars, runBVars, kfVars, extVars>>

\* Lines 117-168: one iteration of the PnL loop.
PnLStep ==
    /\ pc = "pnl"
    /\ t < Len(pos)
    /\ \E b \in BarIn :
          LET px == b.x
              py == b.y
              beta == b.beta
              p == Iloc(pos, t)
              p_prev == Iloc(pos, t - 1)
              eq1 == AfterCommission(equity, p, p_prev, bps)
              ln == LegNotional(equity, eq1, sizing)
              eq2 == AfterPnL(eq1, ln, p, beta, px - prev_x, py - prev_y,
                              borrow_daily)
          IN  /\ trades' = IF p # p_prev THEN trades + 1 ELSE trades
              /\ entries_idx' = IF p # p_prev /\ p_prev = 0 /\ p # 0
                                THEN Append(entries_idx, Marker(Iloc(index, t)))
                                ELSE entries_idx
              /\ entry_sides' = IF p # p_prev /\ p_prev = 0 /\ p # 0
                                THEN Append(entry_sides, p)
                                ELSE entry_sides
              /\ exits_idx' = IF p # p_prev /\ p_prev # 0 /\ p = 0
                              THEN Append(exits_idx, Marker(Iloc(index, t)))
                              ELSE exits_idx
              /\ roundtrip_wins' =
                    IF p # p_prev /\ p_prev # 0 /\ p = 0 /\ IsWin(equity_series)
                    THEN roundtrip_wins + 1
                    ELSE roundtrip_wins
              /\ leg_notional' = ln
              /\ equity' = eq2
              /\ daily_rets' = Append(daily_rets, DailyRet(eq2, Last(equity_series)))
              /\ equity_series' = Append(equity_series, eq2)
              /\ prev_x' = px
              /\ prev_y' = py
    /\ t' = t + 1
    /\ UNCHANGED <<pc, cfgVars, posVars, outVars, runBVars, kfVars, extVars>>

\* Lines 170-205: the metrics and the return.
Metrics ==
    /\ pc = "pnl"
    /\ t = Len(pos)
    /\ pc' = "done"
    /\ final_equity' = Last(equity_series)
    /\ win_rate' = WinRate(roundtrip_wins, trades)
    /\ rets' = [k \in 1..Len(daily_rets) |-> ReplaceFill(daily_rets[k])]
    /\ equity_curve' = [k \in 1..Len(equity_series) |-> Num(equity_series[k])]
    /\ UNCHANGED <<cfgVars, posVars, pnlVars, runBVars, kfVars, extVars>>

Next ==
    \/ Start
    \/ DropBar
    \/ FirstBar
    \/ PosStep
    \/ PnLInit
    \/ PnLStep
    \/ Metrics

Spec == Init /\ [][Next]_vars

TypeOK ==
    /\ pc \in {"start", "pos", "pnl", "done", "error"}
    /\ Len(pos) = Len(index)
    /\ \A k \in 1..Len(pos) : pos[k] \in {-1, 0, 1}

\* --------------------------------------------- two runs on a common prefix
Max(a, b) == IF a > b THEN a ELSE b

\* run_kalman is causal: two inputs that agree on rows 1..cut give the same
\* spread, z-score and hedge on those rows.
SameSignal(bar, sa, sb) == bar <= cut => sb = sa

InitCausal ==
    /\ InitRun
    /\ KfOff
    /\ ExtOff
    /\ n <= MaxBarsTwo
    /\ bps = 0
    /\ borrow_daily = 0
    /\ cut \in 1..MaxBarsTwo
    /\ cut <= n
    /\ n_b \in cut..MaxBarsTwo
    /\ pc_b = "start"
    /\ index_b = <<>>
    /\ pos_b = <<>>

\* Lines 38-58 in both runs.
CausalStart ==
    /\ pc = "start"
    /\ pc_b = "start"
    /\ pc' = IF TooShort(n) THEN "done" ELSE "pos"
    /\ pc_b' = IF TooShort(n_b) THEN "done" ELSE "pos"
    /\ UNCHANGED <<cfgVars, posVars, pnlVars, outVars, cut, n_b, index_b, pos_b, kfVars, extVars>>

\* Lines 66-94 in both runs, row by row: each run that has the row passes it
\* through the mask and the position loop.
CausalBar ==
    /\ pc # "start"
    /\ raw < Max(n, n_b)
    /\ \E sa \in SigIn, sb \in SigIn :
          /\ SameSignal(raw + 1, sa, sb)
          /\ IF pc = "pos" /\ raw + 1 <= n
             THEN /\ index' = AfterBar(index, pos, raw + 1, sa, entry_z, exit_z)[1]
                  /\ pos' = AfterBar(index, pos, raw + 1, sa, entry_z, exit_z)[2]
                  /\ keep' = Append(keep, KeepBar(sa.sp, sa.z, sa.h))
                  /\ zna' = Append(zna, sa.z.nan)
                  /\ zi' = IF KeepBar(sa.sp, sa.z, sa.h) THEN sa.z ELSE zi
             ELSE UNCHANGED <<index, pos, keep, zna, zi>>
          /\ IF pc_b = "pos" /\ raw + 1 <= n_b
             THEN /\ index_b' = AfterBar(index_b, pos_b, raw + 1, sb, entry_z, exit_z)[1]
                  /\ pos_b' = AfterBar(index_b, pos_b, raw + 1, sb, entry_z, exit_z)[2]
             ELSE UNCHANGED <<index_b, pos_b>>
    /\ raw' = raw + 1
    /\ UNCHANGED <<pc, cfgVars, pnlVars, outVars, cut, n_b, pc_b, kfVars, extVars>>

NextCausal ==
    \/ CausalStart
    \/ CausalBar

SpecCausal == InitCausal /\ [][NextCausal]_vars

\* ------------------------------------------------- floating-point numbers
\* A float is finite (the number m * 2^e, with m = 0 or PrecBits significant
\* bits in m), infinite (m is the sign) or NaN.  The exponent is not bounded:
\* overflow and underflow do not occur in the runs considered.
FNum(m, e) == [k |-> "num", m |-> m, e |-> e]
FInf(sgn) == [k |-> "inf", m |-> sgn, e |-> 0]
FNaN == [k |-> "nan", m |-> 0, e |-> 0]
FZero == FNum(0, 0)

\* Number of bits of the natural number a.
BitLen(a) == CHOOSE j \in 0..30 : a < 2^j /\ (j = 0 \/ a >= 2^(j - 1))

\* The float nearest to M * 2^E, ties to the even significand.
Round(M, E) ==
    IF M = 0 THEN FZero
    ELSE LET sgn == IF M < 0 THEN -1 ELSE 1
             a == Abs(M)
             bl == BitLen(a)
         IN  IF bl <= PrecBits
             THEN FNum(sgn * a * 2^(PrecBits - bl), E - (PrecBits - bl))
             ELSE LET sh == bl - PrecBits
                      q == a \div 2^sh
                      rem == a % 2^sh
                      half == 2^(sh - 1)
                      up == rem > half \/ (rem = half /\ q % 2 = 1)
                      q1 == IF up THEN q + 1 ELSE q
                  IN  IF q1 = 2^PrecBits
                      THEN FNum(sgn * 2^(PrecBits - 1), E + sh + 1)
                      ELSE FNum(sgn * q1, E + sh)

FromInt(i) == Round(i, 0)
FOne == FromInt(1)
\* Sign of a finite or infinite float.
Sign(a) == IF a.m > 0 THEN 1 ELSE IF a.m < 0 THEN -1 ELSE 0
IsFinite(a) == a.k = "num"
FNeg(a) == [a EXCEPT !.m = -a.m]
FAbs(a) == [a EXCEPT !.m = Abs(a.m)]

\* a * b.
FMul(a, b) ==
    IF a.k = "nan" \/ b.k = "nan" THEN FNaN
    ELSE IF a.k = "inf" \/ b.k = "inf"
    THEN IF a.m = 0 \/ b.m = 0 THEN FNaN ELSE FInf(Sign(a) * Sign(b))
    ELSE Round(a.m * b.m, a.e + b.e)

\* a + b of two finite floats: the smaller operand is reduced to a sticky
\* bit when it lies below the guard bits of the larger.
AddNum(a, b) ==
    IF a.m = 0 THEN b
    ELSE IF b.m = 0 THEN a
    ELSE LET hi == IF a.e >= b.e THEN a ELSE b
             lo == IF a.e >= b.e THEN b ELSE a
             d == hi.e - lo.e
             G == PrecBits + 2
         IN  IF d > G
             THEN Round(hi.m * 2^G + Sign(lo), hi.e - G)
             ELSE Round(hi.m * 2^d + lo.m, lo.e)

\* a + b.
FAdd(a, b) ==
    IF a.k = "nan" \/ b.k = "nan" THEN FNaN
    ELSE IF a.k = "inf" /\ b.k = "inf"
    THEN IF a.m = b.m THEN a ELSE FNaN
    ELSE IF a.k = "inf" THEN a
    ELSE IF b.k = "inf" THEN b
    ELSE AddNum(a, b)

FSub(a, b) == FAdd(a, FNeg(b))

\* 1.0 / b on numpy floats: infinite for b = 0, without an exception.
FInv(b) ==
    IF b.k = "nan" THEN FNaN
    ELSE IF b.k = "inf" THEN FZero
    ELSE IF b.m = 0 THEN FInf(1)
    ELSE LET G == 2 * PrecBits + 2
             mb == Abs(b.m)
             q == 2^G \div mb
             sticky == IF 2^G % mb > 0 THEN 1 ELSE 0
         IN  Round(Sign(b) * (2 * q + sticky), -b.e - G - 1)

\* Comparisons; false when an operand is NaN.
FLe(a, b) ==
    /\ a.k # "nan"
    /\ b.k # "nan"
    /\ \/ a = b
       \/ LET d == FSub(a, b) IN d.k # "nan" /\ d.m < 0
FGe0(a) == a.k # "nan" /\ a.m >= 0
FGt0(a) == a.k # "nan" /\ a.m > 0

\* ---------------------------------------------------------- KalmanFilterSDA
\* self.F, and np.eye(1).
F == FOne
I == FOne

\* Constructor arguments: initial_beta, initial_R (the initial covariance),
\* Q_process and R_measurement.
InitialBeta == {FromInt(0), FromInt(1)}
InitialP == {FZero, FromInt(1)}
QVals == {Round(1, -10)}
RVals == {FZero, Round(1, -3)}
\* The slope of the observations, and the observations <<price_y, price_x>>:
\* on the line price_y = 2 * price_x.
TrueBeta == FromInt(2)
Obs == {<<FMul(TrueBeta, FromInt(px)), FromInt(px)>> : px \in {0, 3, 17}}

\* State of the filter after predict().
Predict(x, P, Q) ==
    [x |-> FMul(F, x),
     P |-> FAdd(FMul(FMul(F, P), F), Q)]

\* State of the filter after update(price_y, price_x), and S.
Update(x, P, R, price_y, price_x) ==
    LET H == price_x
        y_tilde == FSub(price_y, FMul(H, x))
        S == FAdd(FMul(FMul(H, P), H), R)
        K == FMul(FMul(P, H), FInv(S))
    IN  [x |-> FAdd(x, FMul(K, y_tilde)),
         P |-> FMul(FSub(I, FMul(K, H)), P),
         S |-> S]

\* The run_backtest variables, while only a filter object is exercised.
RunOff ==
    /\ pc = "off"
    /\ n = 0
    /\ entry_z = 0
    /\ exit_z = 0
    /\ bps = 0
    /\ borrow_daily = 0
    /\ sizing = 0
    /\ raw = 0
    /\ keep = <<>>
    /\ zna = <<>>
    /\ index = <<>>
    /\ pos = <<>>
    /\ zi = NaN
    /\ t = 0
    /\ equity = 0
    /\ equity_series = <<>>
    /\ trades = 0
    /\ roundtrip_wins = 0
    /\ entries_idx = <<>>
    /\ entry_sides = <<>>
    /\ exits_idx = <<>>
    /\ prev_x = 0
    /\ prev_y = 0
    /\ leg_notional = 0
    /\ daily_rets = <<>>
    /\ final_equity = 0
    /\ win_rate = 0
    /\ rets = <<>>
    /\ equity_curve = <<>>
    /\ cut = 0
    /\ n_b = 0
    /\ pc_b = "off"
    /\ index_b = <<>>
    /\ pos_b = <<>>

runVars == <<pc, cfgVars, posVars, pnlVars, outVars, runBVars>>

\* Lines 10-25: the constructor.
InitKalman ==
    /\ RunOff
    /\ ExtOff
    /\ kf_x \in InitialBeta
    /\ kf_P \in InitialP
    /\ kf_Q \in QVals
    /\ kf_R \in RVals
    /\ kf_S = FZero
    /\ kf_calls = <<>>
    /\ kf_before = [x |-> kf_x, P |-> kf_P]

\* Lines 27-41: predict().
KfPredict ==
    /\ Len(kf_calls) < MaxCalls
    /\ kf_x' = Predict(kf_x, kf_P, kf_Q).x
    /\ kf_P' = Predict(kf_x, kf_P, kf_Q).P
    /\ kf_calls' = Append(kf_calls, [op |-> "predict", py |-> FZero, px |-> FZero])
    /\ kf_before' = [x |-> kf_x, P |-> kf_P]
    /\ UNCHANGED <<kf_Q, kf_R, kf_S, runVars, extVars>>

\* Lines 43-70: update(price_y, price_x).
KfUpdate ==
    /\ Len(kf_calls) < MaxCalls
    /\ \E o \in Obs :
          /\ kf_x' = Update(kf_x, kf_P, kf_R, o[1], o[2]).x
          /\ kf_P' = Update(kf_x, kf_P, kf_R, o[1], o[2]).P
          /\ kf_S' = Update(kf_x, kf_P, kf_R, o[1], o[2]).S
          /\ kf_calls' = Append(kf_calls, [op |-> "update", py |-> o[1], px |-> o[2]])
    /\ kf_before' = [x |-> kf_x, P |-> kf_P]
    /\ UNCHANGED <<kf_Q, kf_R, runVars, extVars>>

NextKalman ==
    \/ KfPredict
    \/ KfUpdate

SpecKalman == InitKalman /\ [][NextKalman]_vars

\* ------------------------------------------------------ optimize.objective
\* The search space of the bands, as fixed point, on a grid of ZStep:
\* z_entry in [1.2, 3.0]; z_exit in [0.1, min(1.2, z_entry - 0.1)].
ZStep == 1000
ZEntryLo == 12000
ZEntryHi == 30000
ZExitLo == 1000
ZExitCap == 12000
ZGap == 1000
Min(a, b) == IF a < b THEN a ELSE b
ZEntryVals == {v \in {ZEntryLo + ZStep * j : j \in 0..20} : v <= ZEntryHi}
\* z_exit_hi = min(1.2, z_entry - 0.1).
ZExitHi_nogap(ze) == ZExitCap
ZExitHi(ze) == Min(ZExitCap, ze - ZGap)
\* What trial.suggest_float("z_exit", 0.1, hi) can return; empty when the
\* range is empty (a ValueError).
ZExitVals(hi) == {v \in {ZExitLo + ZStep * j : j \in 0..12} : v <= hi}

\* Metrics returned by run_backtest: sharpe_daily, and max_drawdown_pct in
\* percent (0, -0.7 %, -5 %, -85 %).
SharpeVals == {NaN, Num(15000), Num(-5000)}
MddVals == {0, -7000, -50000, -850000}
\* The constant -0.80 the drawdown is compared with.
MddFloor == -8000

\* The value objective returns: -1e9 for a non-finite sharpe, else a score.
ObjPenalty == [penalty |-> TRUE, v |-> 0]
ObjValue(v) == [penalty |-> FALSE, v |-> v]
\* Lines 53-64.
Objective(sh, md) ==
    IF sh.nan THEN ObjPenalty
    ELSE IF md < MddFloor THEN ObjValue(sh.v + md)
    ELSE ObjValue(sh.v)

InitObjective ==
    /\ RunOff
    /\ KfOff
    /\ PairOff
    /\ StratOff
    /\ obj_pc = "start"
    /\ z_entry = 0
    /\ z_exit_hi = 0
    /\ z_exit = 0
    /\ bt_call = <<>>
    /\ sharpe = NaN
    /\ mdd = 0
    /\ obj_ret = ObjPenalty

\* Lines 36-39: the bands are sampled.
ObjSuggest ==
    /\ obj_pc = "start"
    /\ \E ze \in ZEntryVals :
          /\ z_entry' = ze
          /\ z_exit_hi' = ZExitHi(ze)
          /\ IF ZExitVals(ZExitHi(ze)) = {}
             THEN /\ obj_pc' = "error"
                  /\ z_exit' = z_exit
             ELSE /\ obj_pc' = "sampled"
                  /\ z_exit' \in ZExitVals(ZExitHi(ze))
    /\ UNCHANGED <<bt_call, sharpe, mdd, obj_ret, runVars, kfVars, pairVars, stratVars>>

\* Lines 42-51: run_backtest is called with the sampled bands.
ObjRunBacktest ==
    /\ obj_pc = "sampled"
    /\ obj_pc' = "ran"
    /\ bt_call' = <<[entry_z |-> z_entry, exit_z |-> z_exit]>>
    /\ sharpe' \in SharpeVals
    /\ mdd' \in MddVals
    /\ UNCHANGED <<z_entry, z_exit_hi, z_exit, obj_ret, runVars, kfVars, pairVars, stratVars>>

\* Lines 53-64: the score.
ObjReturn ==
    /\ obj_pc = "ran"
    /\ obj_pc' = "returned"
    /\ obj_ret' = Objective(sharpe, mdd)
    /\ UNCHANGED <<z_entry, z_exit_hi, z_exit, bt_call, sharpe, mdd,
                   runVars, kfVars, pairVars, stratVars>>

NextObjective ==
    \/ ObjSuggest
    \/ ObjRunBacktest
    \/ ObjReturn

SpecObjective == InitObjective /\ [][NextObjective]_vars

\* ------------------------------------------- pairs_nasdaq100.backtest_pair
\* enter = 2.0 and exit = 0.5, and the z-scores, in units of 0.5.
PairEnter == 4
PairExit == 1
PairZVals == {-5, -2, 0, 2, 5}
\* Minimum number of z rows (100 in the program, scaled to the model).
MinPairRows == 2

\* pos[mask] = v.
SetWhere(p, mask, v) == [j \in 1..Len(p) |-> IF mask[j] THEN v ELSE p[j]]
\* pos.replace(to_replace=0.0, method="ffill").fillna(0.0): every 0 takes
\* the last value before it that is not 0; a 0 with none before it stays.
ReplaceZeroFfill(p) ==
    [j \in 1..Len(p) |->
        IF p[j] # 0 THEN p[j]
        ELSE LET prior == {i \in 1..(j - 1) : p[i] # 0}
             IN  IF prior = {} THEN 0
                 ELSE p[CHOOSE i \in prior : \A h \in prior : h <= i]]
\* Lines 163-174.
PairPositions(z, enter, exit) ==
    LET above == [j \in 1..Len(z) |-> z[j] > enter]
        below == [j \in 1..Len(z) |-> z[j] < -enter]
        inside == [j \in 1..Len(z) |-> Abs(z[j]) < exit]
        p0 == [j \in 1..Len(z) |-> 0]
        p1 == SetWhere(p0, above, -1)
        p2 == SetWhere(p1, below, 1)
        p3 == SetWhere(p2, inside, 0)
        p4 == ReplaceZeroFfill(p3)
        p5 == SetWhere(p4, inside, 0)
    IN  ReplaceZeroFfill(p5)

InitPair ==
    /\ RunOff
    /\ KfOff
    /\ ObjOff
    /\ StratOff
    /\ bp_pc = "rows"
    /\ bp_z = <<>>
    /\ bp_pos = <<>>

\* One more row of z (lines 156-158).
BpRow ==
    /\ bp_pc = "rows"
    /\ Len(bp_z) < MaxPairBars
    /\ \E v \in PairZVals : bp_z' = Append(bp_z, v)
    /\ UNCHANGED <<bp_pc, bp_pos, runVars, kfVars, objVars, stratVars>>

\* Lines 159-174: the length check and the positions.
BpPositions ==
    /\ bp_pc = "rows"
    /\ IF Len(bp_z) < MinPairRows
       THEN /\ bp_pc' = "nan"
            /\ bp_pos' = bp_pos
       ELSE /\ bp_pc' = "done"
            /\ bp_pos' = PairPositions(bp_z, PairEnter, PairExit)
    /\ UNCHANGED <<bp_z, runVars, kfVars, objVars, stratVars>>

NextPair ==
    \/ BpRow
    \/ BpPositions

SpecPair == InitPair /\ [][NextPair]_vars

\* ------------------------------------------- backtesting.backtest_strategy
\* Money is in whole units; rates are fixed point (a rate r is r * One).
\* initial_capital, take_profit, stop_loss, max_position_pct and
\* daily_loss_limit_pct of the call.
InitialCapital == 10000
TakeProfit == 1500
StopLoss == 500
MaxPositionPct == 4000
DailyLossLimitPct == 500
\* The bands z_score > 1.5 and abs(z_score) < 0.5, in tenths.
EntryBand == 15
ExitBand == 5
\* com, borrow_rate / 252 and max_drawdown_pct of the call.
ComVals == {100}
DailyBorrowVals == {100}
MaxDrawdownVals == {1000, One}
\* A row of signals: stock1_price, stock2_price and z_score (in tenths).
StratBars ==
    {[amd |-> 100, msft |-> 100, z |-> 20],
     [amd |-> 100, msft |-> 100, z |-> 10],
     [amd |-> 100, msft |-> 100, z |-> 0],
     [amd |-> 110, msft |-> 100, z |-> 0],
     [amd |-> 110, msft |-> 100, z |-> 20],
     [amd |-> 80, msft |-> 100, z |-> 10],
     [amd |-> 120, msft |-> 110, z |-> 10],
     [amd |-> 100, msft |-> 110, z |-> 0]}

RECURSIVE SumInts(_)
SumInts(q) == IF q = <<>> THEN 0 ELSE Head(q) + SumInts(Tail(q))

\* The book-keeping variables as one record.
Book ==
    [capital |-> capital, available_capital |-> available_capital,
     active_long |-> active_long, active_short |-> active_short,
     trades_history |-> trades_history,
     winning_trades |-> winning_trades, losing_trades |-> losing_trades,
     total_profit |-> total_profit, total_loss |-> total_loss,
     total_trades |-> total_trades, invested_capital |-> invested_capital]

\* profit of closing a long / a short position at the current price.
LongProfit(q, pa, c) == Mul((pa - q.bought_at) * q.shares, One - c)
ShortProfit(q, pm, c) == Mul((q.sold_at - pm) * q.shares, One - c)
\* price_MSFT * shares * daily_borrow_rate * days_held.
BorrowCost(q, pm, rate, days) == Mul(pm * q.shares, rate) * days
NetShortProfit(q, pm, c, rate, d) ==
    ShortProfit(q, pm, c) - BorrowCost(q, pm, rate, d - q.start_date)
\* A record of trades_history.
Trade(type, reason, profit, holding) ==
    [type |-> type, exit_reason |-> reason, profit_abs |-> profit,
     holding_period |-> holding]

\* The statistics of a list of closed trades: if profit > 0 the trade is a
\* winner, else a loser.
Wins(ts) == Cardinality({j \in 1..Len(ts) : ts[j].profit_abs > 0})
Losses(ts) == Cardinality({j \in 1..Len(ts) : ts[j].profit_abs <= 0})
Gains(ts) ==
    SumInts([j \in 1..Len(ts) |->
                IF ts[j].profit_abs > 0 THEN ts[j].profit_abs ELSE 0])
Lost(ts) ==
    SumInts([j \in 1..Len(ts) |->
                IF ts[j].profit_abs > 0 THEN 0 ELSE Abs(ts[j].profit_abs)])

\* Lines 50-66: the sum of position_pl over the open positions
\* (portfolio_pl_pct * initial_capital).
PortfolioPL(B, pa, pm) ==
    SumInts([j \in 1..Len(B.active_long) |->
                pa * B.active_long[j].shares
                - B.active_long[j].shares * B.active_long[j].bought_at])
    + SumInts([j \in 1..Len(B.active_short) |->
                (B.active_short[j].sold_at - pm) * B.active_short[j].shares])
\* Line 69: portfolio_pl_pct <= -stop_loss.
StopHit(B, pa, pm) == PortfolioPL(B, pa, pm) * One <= -(StopLoss * InitialCapital)

\* Lines 70-122: the portfolio stop closes every position.
StopAll(B, pa, pm, d, c) ==
    LET lt == [j \in 1..Len(B.active_long) |->
                 Trade("long", "portfolio_stop_loss",
                       LongProfit(B.active_long[j], pa, c),
                       d - B.active_long[j].start_date)]
        st == [j \in 1..Len(B.active_short) |->
                 Trade("short", "portfolio_stop_loss",
                       ShortProfit(B.active_short[j], pm, c),
                       d - B.active_short[j].start_date)]
        all == lt \o st
        cash == SumInts([j \in 1..Len(B.active_long) |->
                            Mul(B.active_long[j].shares * pa, One - c)])
                + SumInts([j \in 1..Len(B.active_short) |->
                            Mul(B.active_short[j].shares * pm, One - c)])
    IN  [B EXCEPT !.available_capital = @ + cash,
                  !.trades_history = @ \o all,
                  !.winning_trades = @ + Wins(all),
                  !.losing_trades = @ + Losses(all),
                  !.total_profit = @ + Gains(all),
                  !.total_loss = @ + Lost(all),
                  !.active_long = <<>>,
                  !.active_short = <<>>]

\* Lines 126-188: take-profit and stop of each position.  A long that is
\* closed is counted as a winner or a loser; a short that is closed adds to
\* total_trades, and to winning_trades when its net profit is positive.
Individual(B, pa, pm, d, c, rate) ==
    LET HitL(q) == \/ (pa - q.bought_at) * One >= TakeProfit * q.bought_at
                   \/ (pa - q.bought_at) * One <= -(StopLoss * q.bought_at)
        KeepL(q) == ~HitL(q)
        HitS(q) == \/ (q.sold_at - pm) * One >= TakeProfit * q.sold_at
                   \/ (q.sold_at - pm) * One <= -(StopLoss * q.sold_at)
        KeepS(q) == ~HitS(q)
        cl == SelectSeq(B.active_long, HitL)
        cs == SelectSeq(B.active_short, HitS)
        lt == [j \in 1..Len(cl) |->
                 Trade("long", "individual_stop", LongProfit(cl[j], pa, c),
                       d - cl[j].start_date)]
        st == [j \in 1..Len(cs) |->
                 Trade("short", "none", NetShortProfit(cs[j], pm, c, rate, d),
                       d - cs[j].start_date)]
    IN  [B EXCEPT
            !.available_capital =
                @ + SumInts([j \in 1..Len(cl) |-> Mul(cl[j].shares * pa, One - c)]),
            !.capital =
                @ + SumInts([j \in 1..Len(cs) |->
                        NetShortProfit(cs[j], pm, c, rate, d)
                        + cs[j].shares * cs[j].sold_at]),
            !.trades_history = @ \o lt \o st,
            !.total_trades = @ + Len(cs),
            !.winning_trades = @ + Wins(lt) + Wins(st),
            !.losing_trades = @ + Losses(lt),
            !.total_profit = @ + Gains(lt) + Gains(st),
            !.total_loss = @ + Lost(lt) + Lost(st),
            !.active_long = SelectSeq(B.active_long, KeepL),
            !.active_short = SelectSeq(B.active_short, KeepS)]

\* Line 191: daily_pl is reset on the first bar and on a new calendar day.
DailyReset_never(dp, last, d) == dp
DailyReset(dp, last, d) == IF last = 0 \/ d # last THEN 0 ELSE dp

\* Lines 206 and 210: the lists are emptied before new positions are opened.
ClearBeforeEntry_keep(list) == list
ClearBeforeEntry(list) == <<>>

\* Lines 201-250: the entry signal.
Entry(B, pa, pm, d, c, rate) ==
    LET released ==
            SumInts([j \in 1..Len(B.active_long) |->
                        LongProfit(B.active_long[j], pa, c)
                        + B.active_long[j].shares * B.active_long[j].bought_at])
            + SumInts([j \in 1..Len(B.active_short) |->
                        ShortProfit(B.active_short[j], pm, c)
                        + B.active_short[j].shares * B.active_short[j].sold_at])
        position_size == Mul(B.available_capital, MaxPositionPct)
        shares_AMD == position_size \div pa
        shares_MSFT == position_size \div pm
        total_cost_AMD == Mul(pa * shares_AMD, One + c)
        buy == B.available_capital >= total_cost_AMD
        avail1 == IF buy THEN B.available_capital - total_cost_AMD
                  ELSE B.available_capital
        total_cost_MSFT == Mul(pm * shares_MSFT, One + c)
        sell == avail1 >= total_cost_MSFT
        avail2 == IF sell THEN avail1 - total_cost_MSFT ELSE avail1
        longs == IF buy
                 THEN Append(ClearBeforeEntry(B.active_long),
                             [bought_at |-> pa, shares |-> shares_AMD,
                              start_date |-> d, cost |-> total_cost_AMD])
                 ELSE ClearBeforeEntry(B.active_long)
        shorts == IF sell
                  THEN Append(ClearBeforeEntry(B.active_short),
                              [sold_at |-> pm, shares |-> shares_MSFT,
                               start_date |-> d, cost |-> total_cost_MSFT])
                  ELSE ClearBeforeEntry(B.active_short)
        borrow == SumInts([j \in 1..Len(shorts) |->
                              Mul(pm * shorts[j].shares, rate)])
    IN  [B EXCEPT !.capital = @ + released - borrow,
                  !.available_capital = avail2,
                  !.invested_capital =
                      @ + (IF buy THEN total_cost_AMD ELSE 0)
                        + (IF sell THEN total_cost_MSFT ELSE 0),
                  !.active_long = longs,
                  !.active_short = shorts]

\* Lines 253-312: the exit signal closes every position into capital.
Exit(B, pa, pm, d, c, rate) ==
    LET lt == [j \in 1..Len(B.active_long) |->
                 Trade("long", "none", LongProfit(B.active_long[j], pa, c),
                       d - B.active_long[j].start_date)]
        st == [j \in 1..Len(B.active_short) |->
                 Trade("short", "none",
                       NetShortProfit(B.active_short[j], pm, c, rate, d),
                       d - B.active_short[j].start_date)]
        all == lt \o st
        proceeds ==
            SumInts([j \in 1..Len(B.active_long) |->
                        LongProfit(B.active_long[j], pa, c)
                        + B.active_long[j].shares * B.active_long[j].bought_at])
            + SumInts([j \in 1..Len(B.active_short) |->
                        NetShortProfit(B.active_short[j], pm, c, rate, d)
                        + B.active_short[j].shares * B.active_short[j].sold_at])
    IN  [B EXCEPT !.capital = @ + proceeds,
                  !.trades_history = @ \o all,
                  !.winning_trades = @ + Wins(all),
                  !.losing_trades = @ + Losses(all),
                  !.total_profit = @ + Gains(all),
                  !.total_loss = @ + Lost(all),
                  !.active_long = <<>>,
                  !.active_short = <<>>]

\* Lines 314-323 and 337-343: available cash plus the open positions.
PortfolioOf(B, pa, pm) ==
    B.available_capital
    + SumInts([j \in 1..Len(B.active_long) |-> B.active_long[j].shares * pa])
    + SumInts([j \in 1..Len(B.active_short) |->
                 B.active_short[j].cost - B.active_short[j].shares * pm])

\* The book-keeping variables take the values of the record B.
SetBook(B) ==
    /\ capital' = B.capital
    /\ available_capital' = B.available_capital
    /\ active_long' = B.active_long
    /\ active_short' = B.active_short
    /\ trades_history' = B.trades_history
    /\ winning_trades' = B.winning_trades
    /\ losing_trades' = B.losing_trades
    /\ total_profit' = B.total_profit
    /\ total_loss' = B.total_loss
    /\ total_trades' = B.total_trades
    /\ invested_capital' = B.invested_capital

\* The dates the next row of signals may carry: the first row is day 1, a
\* later row is on the day of the row before it or on the next day.
NextDates == IF dates = <<>> THEN {1} ELSE {Last(dates), Last(dates) + 1}

\* Lines 22-42: the state before the loop.
InitStrategy ==
    /\ RunOff
    /\ KfOff
    /\ ObjOff
    /\ PairOff
    /\ bs_pc = "loop"
    /\ dates = <<>>
    /\ com \in ComVals
    /\ daily_borrow_rate \in DailyBorrowVals
    /\ max_drawdown_pct \in MaxDrawdownVals
    /\ capital = InitialCapital
    /\ available_capital = InitialCapital
    /\ active_long = <<>>
    /\ active_short = <<>>
    /\ portfolio_values = <<>>
    /\ peak_capital = InitialCapital
    /\ daily_pl = 0
    /\ last_trade_date = 0
    /\ portfolio_value = InitialCapital
    /\ price_AMD = 0
    /\ price_MSFT = 0
    /\ trades_history = <<>>
    /\ winning_trades = 0
    /\ losing_trades = 0
    /\ total_profit = 0
    /\ total_loss = 0
    /\ total_trades = 0
    /\ invested_capital = 0
    /\ checks = <<>>
    /\ closes = <<>>
    /\ final_value = 0
    /\ bs_win_rate = 0
    /\ avg_profit = 0
    /\ avg_loss = 0
    /\ avg_holding_period = 0

\* Lines 44-123: a row on which the portfolio stop is hit; the positions are
\* closed and the rest of the iteration is skipped, so portfolio_values[i]
\* keeps its initial value.
BsStopLoss ==
    /\ bs_pc = "loop"
    /\ Len(dates) < MaxStratBars
    /\ \E b \in StratBars, d \in NextDates :
          /\ StopHit(Book, b.amd, b.msft)
          /\ SetBook(StopAll(Book, b.amd, b.msft, d, com))
          /\ dates' = Append(dates, d)
          /\ price_AMD' = b.amd
          /\ price_MSFT' = b.msft
    /\ portfolio_values' = Append(portfolio_values, InitialCapital)
    /\ UNCHANGED <<bs_pc, bsParams, peak_capital, daily_pl, last_trade_date,
                   portfolio_value, checks, closes, bsOut,
                   runVars, kfVars, objVars, pairVars>>

\* Line 196-197: the drawdown and the daily loss limit, for the row after
\* the rows processed so far, with daily_pl as reset for the date d.
DrawdownBreach ==
    /\ portfolio_values # <<>>
    /\ (peak_capital - Last(portfolio_values)) * One > max_drawdown_pct * peak_capital
DailyBreach(dp) == dp * One < -(InitialCapital * DailyLossLimitPct)
Check(d) ==
    LET dp == DailyReset(daily_pl, last_trade_date, d)
    IN  [bar |-> Len(dates) + 1, daily_pl |-> dp,
         daily |-> DailyBreach(dp), drawdown |-> DrawdownBreach]

\* Lines 44-198: a row on which a risk limit is breached; after the
\* take-profit / stop of each position the rest of the iteration is skipped.
BsBlocked ==
    /\ bs_pc = "loop"
    /\ Len(dates) < MaxStratBars
    /\ \E b \in StratBars, d \in NextDates :
          /\ ~StopHit(Book, b.amd, b.msft)
          /\ Check(d).daily \/ Check(d).drawdown
          /\ SetBook(Individual(Book, b.amd, b.msft, d, com, daily_borrow_rate))
          /\ dates' = Append(dates, d)
          /\ price_AMD' = b.amd
          /\ price_MSFT' = b.msft
          /\ daily_pl' = Check(d).daily_pl
          /\ last_trade_date' = d
          /\ checks' = Append(checks, Check(d))
    /\ portfolio_values' = Append(portfolio_values, InitialCapital)
    /\ UNCHANGED <<bs_pc, bsParams, peak_capital, portfolio_value, closes, bsOut,
                   runVars, kfVars, objVars, pairVars>>

\* Lines 44-334: a row that passes the risk check; kind is the branch taken
\* at lines 201 / 253.
TradeStep(kind) ==
    /\ \E b \in StratBars, d \in NextDates :
          LET B1 == Individual(Book, b.amd, b.msft, d, com, daily_borrow_rate)
              B2 == IF b.z > EntryBand
                    THEN Entry(B1, b.amd, b.msft, d, com, daily_borrow_rate)
                    ELSE IF Abs(b.z) < ExitBand
                    THEN Exit(B1, b.amd, b.msft, d, com, daily_borrow_rate)
                    ELSE B1
              current_portfolio == PortfolioOf(B2, b.amd, b.msft)
          IN  /\ ~StopHit(Book, b.amd, b.msft)
              /\ ~(Check(d).daily \/ Check(d).drawdown)
              /\ kind = (IF b.z > EntryBand THEN "entry"
                         ELSE IF Abs(b.z) < ExitBand THEN "exit" ELSE "hold")
              /\ SetBook(B2)
              /\ dates' = Append(dates, d)
              /\ price_AMD' = b.amd
              /\ price_MSFT' = b.msft
              /\ last_trade_date' = d
              /\ checks' = Append(checks, Check(d))
              /\ closes' = IF kind = "exit"
                           THEN Append(closes,
                                  [bar |-> Len(dates) + 1,
                                   cash |-> B1.available_capital,
                                   proceeds |-> B2.capital - B1.capital,
                                   closed |-> Len(B1.active_long) + Len(B1.active_short)])
                           ELSE closes
              /\ portfolio_values' = Append(portfolio_values, current_portfolio)
              /\ portfolio_value' = current_portfolio
              /\ peak_capital' = IF current_portfolio > peak_capital
                                 THEN current_portfolio ELSE peak_capital
              /\ daily_pl' = IF portfolio_values # <<>>
                             THEN Check(d).daily_pl
                                  + (current_portfolio - Last(portfolio_values))
                             ELSE Check(d).daily_pl
    /\ UNCHANGED <<bs_pc, bsParams, bsOut, runVars, kfVars, objVars, pairVars>>

\* Lines 201-250: z_score > 1.5.
BsEntry ==
    /\ bs_pc = "loop"
    /\ Len(dates) < MaxStratBars
    /\ TradeStep("entry")

\* Lines 253-312: abs(z_score) < 0.5.
BsExit ==
    /\ bs_pc = "loop"
    /\ Len(dates) < MaxStratBars
    /\ TradeStep("exit")

\* Neither signal.
BsHold ==
    /\ bs_pc = "loop"
    /\ Len(dates) < MaxStratBars
    /\ TradeStep("hold")

\* Lines 336-408: the final value, the statistics, the printed report and
\* the return.  The report divides by total_trades (line 377).
BsFinish ==
    /\ bs_pc = "loop"
    /\ final_value' = PortfolioOf(Book, price_AMD, price_MSFT)
    /\ total_trades' = winning_trades + losing_trades
    /\ bs_win_rate' = IF winning_trades + losing_trades > 0
                      THEN (winning_trades * 100 * One)
                           \div (winning_trades + losing_trades)
                      ELSE 0
    /\ avg_profit' = IF winning_trades > 0 THEN total_profit \div winning_trades ELSE 0
    /\ avg_loss' = IF losing_trades > 0 THEN total_loss \div losing_trades ELSE 0
    /\ avg_holding_period' =
          IF trades_history # <<>>
          THEN (SumInts([j \in 1..Len(trades_history) |->
                           trades_history[j].holding_period]) * One)
               \div Len(trades_history)
          ELSE 0
    /\ bs_pc' = IF winning_trades + losing_trades = 0 THEN "error" ELSE "done"
    /\ UNCHANGED <<dates, bsParams, capital, available_capital, active_long,
                   active_short, trades_history, winning_trades, losing_trades,
                   total_profit, total_loss, invested_capital, bsRisk, bsPrices,
                   checks, closes, runVars, kfVars, objVars, pairVars>>

NextStrategy ==
    \/ BsStopLoss
    \/ BsBlocked
    \/ BsEntry
    \/ BsExit
    \/ BsHold
    \/ BsFinish

SpecStrategy == InitStrategy /\ [][NextStrategy]_vars

\* ------------------------------------------------------------------ claims
\* The retained row evaluated last by the position loop, and the one before.
HasStep == Len(pos) >= 2
Cur == pos[Len(pos)]
Prev == pos[Len(pos) - 1]
\* Retained bar (1-based) with timestamp ts.
BarOf(ts) == CHOOSE k \in 1..Len(index) : index[k] = ts
Times(markers) == {markers[k].time : k \in 1..Len(markers)}

\* C1: from Flat, the loop opens ShortSpread when z > entry_z, LongSpread
\* when z < -entry_z and stays Flat otherwise; z equal to +entry_z or
\* -entry_z leaves the position Flat.
C1_FlatTransitions ==
    (HasStep /\ Prev = 0) =>
        /\ ~zi.nan
        /\ (zi.v > entry_z => Cur = -1)
        /\ (zi.v < -entry_z => Cur = 1)
        /\ (zi.v <= entry_z /\ zi.v >= -entry_z => Cur = 0)
        /\ (zi.v = entry_z \/ zi.v = -entry_z => Cur = 0)

C1_Witness ==
    /\ HasStep
    /\ Prev = 0
    /\ zi.v = entry_z
    /\ Cur = 0
    /\ \E k \in 1..Len(pos) : pos[k] # 0

\* C2: from LongSpread or ShortSpread, the loop goes Flat when |z| < exit_z
\* and otherwise keeps the position; |z| equal to exit_z keeps it open.
C2_OpenTransitions ==
    (HasStep /\ Prev # 0) =>
        /\ ~zi.nan
        /\ (Abs(zi.v) < exit_z => Cur = 0)
        /\ (Abs(zi.v) >= exit_z => Cur = Prev)
        /\ (Abs(zi.v) = exit_z => Cur = Prev)

C2_Witness ==
    /\ HasStep
    /\ Prev # 0
    /\ Abs(zi.v) = exit_z
    /\ Cur = Prev

\* C3: the position never goes from LongSpread to ShortSpread or back on
\* consecutive retained rows.
C3_NoDirectFlip ==
    \A k \in 1..(Len(pos) - 1) : pos[k] * pos[k + 1] # -1

C3_Witness ==
    \E k \in 1..Len(pos) : \E m \in 1..Len(pos) :
        /\ k + 1 < m
        /\ pos[k] = 1
        /\ pos[m] = -1
        /\ \A j \in (k + 1)..(m - 1) : pos[j] = 0

\* C5: an exit and a fresh entry never fall on the same row: a row that
\* closes a position leaves it Flat even when its z-score is an entry
\* signal, and no timestamp is both an entry and an exit marker.
C5_NoSameBarReentry ==
    /\ (HasStep /\ Prev # 0 /\ ~zi.nan /\ Abs(zi.v) < exit_z
            /\ (zi.v > entry_z \/ zi.v < -entry_z))
          => Cur = 0
    /\ Times(entries_idx) \cap Times(exits_idx) = {}

C5_Witness ==
    /\ exit_z >= entry_z
    /\ HasStep
    /\ Prev # 0
    /\ zi.v > entry_z
    /\ Abs(zi.v) < exit_z
    /\ Cur = 0

\* The position a run gives row j of the input: that of the retained row
\* with timestamp j, Flat when the run has none (the row was dropped, or
\* the run returned the inert result).
EffPos(idx, p, j) ==
    IF \E k \in 1..Len(idx) : idx[k] = j
    THEN p[CHOOSE k \in 1..Len(idx) : idx[k] = j]
    ELSE 0

SamePrefix ==
    \A j \in 1..cut :
        j <= raw => EffPos(index, pos, j) = EffPos(index_b, pos_b, j)

\* C4 (as stated): two runs whose inputs agree on rows 1..cut, the second
\* input mutated after row cut or truncated after it, give every row up to
\* cut the same position.
C4_Causality ==
    SamePrefix

\* C4 (amended): the same, for two inputs that both have at least the
\* minimum number of aligned rows.
C4_CausalityLongEnough ==
    (n >= MinBars /\ n_b >= MinBars) => SamePrefix

C4_Witness ==
    /\ n >= MinBars
    /\ n_b >= MinBars
    /\ raw > cut
    /\ pos # pos_b
    /\ \E j \in 1..cut : EffPos(index, pos, j) # 0 /\ EffPos(index_b, pos_b, j) # 0

\* C6: a row whose z-score is NaN is not evaluated: it gets no position and
\* no marker, and the position held before it is the one the next defined
\* row starts from (kept, with its side, unless that row is an exit).
C6_UndefinedBarInert ==
    /\ \A j \in 1..Len(zna) :
          zna[j] =>
              /\ ~keep[j]
              /\ \A k \in 1..Len(index) : index[k] # j
              /\ j \notin Times(entries_idx) \cup Times(exits_idx)
    /\ Len(pos) = Cardinality({j \in 1..Len(keep) : keep[j]})
    /\ Len(pos) >= 1 => ~zi.nan
    /\ (HasStep /\ index[Len(pos)] > index[Len(pos) - 1] + 1 /\ Prev # 0)
          => /\ Cur \in {Prev, 0}
             /\ (Abs(zi.v) >= exit_z => Cur = Prev)

C6_Witness ==
    /\ HasStep
    /\ index[Len(pos)] > index[Len(pos) - 1] + 1
    /\ zna[index[Len(pos)] - 1]
    /\ Prev # 0
    /\ Cur = Prev

\* C7: the first retained row is Flat whatever its z-score, a position is
\* open on retained row 1 at the earliest, and never on a row whose z-score
\* is undefined.
C7_NoDecisionAtBarZero ==
    /\ Len(pos) >= 1 => pos[1] = 0
    /\ \A k \in 1..Len(pos) : pos[k] # 0 => (k >= 2 /\ ~zna[index[k]])
    /\ \A ts \in Times(entries_idx) : BarOf(ts) >= 2 /\ ~zna[ts]

C7_Witness ==
    /\ Len(pos) = 1
    /\ zi.v > entry_z
    /\ pos[1] = 0

\* C8: the commission is charged once on a bar whose position differs from
\* the previous bar's and not at all otherwise: on a bar without PnL and
\* borrow (Flat, or unchanged prices and no borrow rate) the equity is
\* multiplied by (1 - bps)^2 exactly when the position changed.
C8_CommissionOncePerChange ==
    [][(pc = "pnl" /\ t' = t + 1) =>
          LET p == Iloc(pos, t)
              p_prev == Iloc(pos, t - 1)
              quiet == \/ p = 0
                       \/ (prev_x' = prev_x /\ prev_y' = prev_y /\ borrow_daily = 0)
          IN  /\ trades' = trades + (IF p # p_prev THEN 1 ELSE 0)
              /\ quiet =>
                    equity' = IF p # p_prev
                              THEN Mul(equity, Mul(One - bps, One - bps))
                              ELSE equity
      ]_vars

C8_Witness ==
    /\ pc = "pnl"
    /\ bps > 0
    /\ t >= 4
    /\ Iloc(pos, 1) # 0
    /\ Iloc(pos, 2) = Iloc(pos, 1)
    /\ Iloc(pos, 3) = 0
    /\ equity_series[2] = Mul(One, Mul(One - bps, One - bps))
    /\ equity_series[3] = equity_series[2]
    /\ equity_series[4] = Mul(equity_series[3], Mul(One - bps, One - bps))

\* Realized PnL of the k-th closed trade: the equity after the exit bar less
\* the equity before the entry bar.
RealizedPnL(k) ==
    equity_series[BarOf(exits_idx[k].time)]
        - equity_series[BarOf(entries_idx[k].time) - 1]

\* The bars already simulated (1-based) on which a position was closed.
ClosingBars ==
    {b \in 2..Len(equity_series) : pos[b - 1] # 0 /\ pos[b] = 0}

\* C9: every bar that closes a position, and no other bar, appends one
\* record to the ledger, and the record carries the realized PnL of the
\* trade.
C9_TradeRecord ==
    /\ Len(exits_idx) = Cardinality(ClosingBars)
    /\ \A k \in 1..Len(exits_idx) :
          /\ BarOf(exits_idx[k].time) \in ClosingBars
          /\ "pnl" \in DOMAIN exits_idx[k]
          /\ exits_idx[k].pnl = RealizedPnL(k)

\* C10: the win rate is the share, in percent, of the closed trades whose
\* realized PnL is positive, and 0 when no trade was closed.
C10_WinRate ==
    pc = "done" =>
        LET closed == Len(exits_idx)
            wins == Cardinality({k \in 1..closed : RealizedPnL(k) > 0})
        IN  win_rate = IF closed = 0 THEN 0 ELSE (wins * 100 * One) \div closed

\* ------------------------------------------------- claims C11 to C16
\* The bar simulated last is row Len(equity_series) of pos; the equity
\* recorded for the bar before it is equity_series[Len(equity_series) - 1].
Simulated == pc \in {"pnl", "done"} /\ Len(equity_series) >= 2
PrevEquity == equity_series[Len(equity_series) - 1]
CurPos == pos[Len(equity_series)]
PrevPos == pos[Len(equity_series) - 1]

\* C11 (as stated): on every bar, change bars included, the per-leg notional
\* is sizing times the equity recorded for the previous bar, before this
\* bar's commission.
C11_NotionalOnPrevEquity ==
    Simulated => leg_notional = Mul(PrevEquity, sizing)

\* C11 (amended): the per-leg notional is sizing times the current equity,
\* which on a change bar is the previous bar's equity after this bar's
\* commission factor (1 - bps)^2, and the previous bar's equity otherwise.
C11_NotionalOnCurrentEquity ==
    Simulated =>
        leg_notional =
            Mul(IF CurPos # PrevPos
                THEN Mul(PrevEquity, Mul(One - bps, One - bps))
                ELSE PrevEquity,
                sizing)

\* A change bar with a positive cost: the notional is below sizing times the
\* previous bar's equity.
C11_Witness ==
    /\ Simulated
    /\ CurPos # PrevPos
    /\ bps = 100
    /\ PrevEquity > 0
    /\ leg_notional < Mul(PrevEquity, sizing)

\* C12: a bar with position 0 carries no PnL and no borrow: after a Flat bar
\* the equity is unchanged, and on a closing bar it differs from the previous
\* bar's equity by the commission factor only.
C12_FlatBarInert ==
    \A b \in 2..Len(equity_series) :
        pos[b] = 0 =>
            equity_series[b] = IF pos[b - 1] = 0
                               THEN equity_series[b - 1]
                               ELSE Mul(equity_series[b - 1], CommFactor(bps))

\* A closing bar followed by a Flat bar, with a positive borrow rate and a
\* positive cost, after the open position moved the equity.
C12_Witness ==
    /\ Simulated
    /\ Len(equity_series) >= 4
    /\ borrow_daily > 0
    /\ bps = 100
    /\ CurPos = 0
    /\ PrevPos = 0
    /\ pos[Len(equity_series) - 2] # 0
    /\ equity_series[Len(equity_series) - 2] # One
    /\ equity_series[Len(equity_series) - 1] < equity_series[Len(equity_series) - 2]
    /\ Last(equity_series) = PrevEquity

\* C13: with fewer aligned rows than the guard requires, the run returns a
\* zero-activity result: final equity 1.0, no trades, no entries or exits,
\* and an equity curve that is 1.0 on every bar.
C13_ShortRunFlatCurve ==
    (pc = "done" /\ TooShort(n)) =>
        /\ final_equity = One
        /\ trades = 0
        /\ entries_idx = <<>>
        /\ exits_idx = <<>>
        /\ Len(equity_curve) = n
        /\ \A k \in 1..n : equity_curve[k] = Num(One)

\* C14: with enough rows and the z-score undefined on every one of them, the
\* run completes without error, with no trades, entries or exits.
C14_AllUndefinedCompletes ==
    (n >= MinBars /\ raw = n /\ \A j \in 1..n : zna[j]) =>
        /\ pc # "error"
        /\ trades = 0
        /\ entries_idx = <<>>
        /\ exits_idx = <<>>

\* C15: with exit_z >= entry_z, or a non-positive sizing, the run fails
\* before any bar is processed.
C15_InvalidConfigurationRejected ==
    (exit_z >= entry_z \/ sizing <= 0) => (raw = 0 /\ pc \in {"start", "error"})

\* C16: a run that returns metrics has no non-finite daily return behind
\* them: a NaN or infinite daily return is never turned into a zero of a
\* result that is reported as a success.
C16_NoSilentNonFinite ==
    pc = "done" => \A k \in 1..Len(daily_rets) : ~daily_rets[k].nan

\* ------------------------------------------------- claims C17 to C20
\* The filter was created with a non-negative initial covariance and
\* strictly positive noise variances.
ValidNoise == FGt0(kf_Q) /\ FGt0(kf_R)
Called == Len(kf_calls) >= 1
LastCall == kf_calls[Len(kf_calls)]
Updated == Called /\ LastCall.op = "update"

\* C17: with a non-negative initial covariance and Q > 0, R > 0, after any
\* sequence of predict() and update() calls with finite prices the
\* covariance P is non-negative and S of every update is strictly positive.
C17_CovarianceNonNegative ==
    ValidNoise => (FGe0(kf_P) /\ (Updated => FGt0(kf_S)))

\* C18: when S or P is non-positive or singular in update(), the call fails
\* instead of storing its result: the filter state never holds a NaN or an
\* infinity.
C18_NoNonFiniteState ==
    Called => (IsFinite(kf_x) /\ IsFinite(kf_P))

\* C19: a second update() with the same (price_x, price_y) as the update()
\* just before it does not increase the covariance.
C19_RepeatedUpdateShrinks ==
    (/\ ValidNoise
     /\ Len(kf_calls) >= 2
     /\ Updated
     /\ kf_calls[Len(kf_calls) - 1] = LastCall)
        => FLe(kf_P, kf_before.P)

\* C20: on noise-free observations price_y = beta * price_x, processed by
\* predict() then update() per bar, no update moves the estimate further
\* from beta (so that the estimate can converge to beta).
C20_NoiseFreeContraction ==
    (/\ ValidNoise
     /\ Len(kf_calls) >= 2
     /\ Updated
     /\ LastCall.py = FMul(TrueBeta, LastCall.px)
     /\ kf_calls[Len(kf_calls) - 1].op = "predict"
     /\ \A j \in 1..Len(kf_calls) :
            kf_calls[j].op = (IF j % 2 = 1 THEN "predict" ELSE "update"))
        => FLe(FAbs(FSub(kf_x, TrueBeta)), FAbs(FSub(kf_before.x, TrueBeta)))

\* ------------------------------------------------- claims C22 and C23
\* Bars of the PnL loop on which the position differs from the bar before.
ChangeBars == {b \in 2..Len(equity_series) : pos[b] # pos[b - 1]}

\* C22: the trade count is the number of bars on which the position
\* changed, and it is len(entries) + len(exits): every change is an entry
\* or an exit.
C22_TradesAreEntriesPlusExits ==
    /\ trades = Cardinality(ChangeBars)
    /\ trades = Len(entries_idx) + Len(exits_idx)

\* A finished run with two entries and an exit.
C22_Witness ==
    /\ pc = "done"
    /\ trades = 3
    /\ Len(entries_idx) = 2
    /\ Len(exits_idx) = 1

\* C23: entries and exits alternate in time, starting with an entry: at
\* every point of the simulation len(entries) - len(exits) is 1 when the
\* current position is non-zero and 0 when it is Flat, and entry_sides[k] is
\* the position held from entry k until the matching exit.
C23_MarkersAlternate ==
    IF equity_series = <<>>
    THEN entries_idx = <<>> /\ exits_idx = <<>> /\ entry_sides = <<>>
    ELSE /\ Len(entries_idx) - Len(exits_idx)
                = (IF pos[Len(equity_series)] # 0 THEN 1 ELSE 0)
         /\ Len(entry_sides) = Len(entries_idx)
         /\ \A k \in 1..Len(entries_idx) :
               LET from == BarOf(entries_idx[k].time)
                   to == IF k <= Len(exits_idx)
                         THEN BarOf(exits_idx[k].time) - 1
                         ELSE Len(equity_series)
               IN  /\ entry_sides[k] \in {-1, 1}
                   /\ from <= to
                   /\ \A b \in from..to : pos[b] = entry_sides[k]
         /\ \A k \in 1..Len(exits_idx) :
               /\ entries_idx[k].time < exits_idx[k].time
               /\ k < Len(entries_idx) =>
                     exits_idx[k].time < entries_idx[k + 1].time

\* A long trade, its exit, and then a short trade still open.
C23_Witness ==
    /\ pc = "pnl"
    /\ Len(entries_idx) = 2
    /\ Len(exits_idx) = 1
    /\ entry_sides = <<1, -1>>
    /\ pos[Len(equity_series)] = -1

\* ------------------------------------------------- claims C21, C24, C25
\* C21: in every trial the range [0.1, z_exit_hi] of z_exit is not empty
\* and the sampled z_exit is below z_entry by at least 0.1, so run_backtest
\* is never called with exit_z >= entry_z.
C21_ExitBelowEntry ==
    /\ obj_pc # "error"
    /\ obj_pc \in {"sampled", "ran", "returned"} =>
          /\ z_entry >= ZEntryLo
          /\ z_entry <= ZEntryHi
          /\ z_exit_hi >= ZExitLo
          /\ z_exit >= ZExitLo
          /\ z_exit <= z_entry - ZGap
    /\ \A j \in 1..Len(bt_call) : bt_call[j].exit_z < bt_call[j].entry_z

\* The lowest z_entry with the highest z_exit it allows, passed on to
\* run_backtest.
C21_Witness ==
    /\ obj_pc = "ran"
    /\ z_entry = ZEntryLo
    /\ z_exit = ZEntryLo - ZGap
    /\ bt_call = <<[entry_z |-> ZEntryLo, exit_z |-> ZEntryLo - ZGap]>>

\* C24: the position of backtest_pair is flat on every bar with
\* |z| < exit; from flat, z > enter opens -1 and z < -enter opens +1; an
\* open position is held unchanged until the first later bar with
\* |z| < exit, where it becomes 0.
C24_PairExits ==
    bp_pc = "done" =>
        /\ \A j \in 1..Len(bp_z) : Abs(bp_z[j]) < PairExit => bp_pos[j] = 0
        /\ \A j \in 2..Len(bp_z) :
              /\ (bp_pos[j - 1] # 0 /\ Abs(bp_z[j]) >= PairExit)
                    => bp_pos[j] = bp_pos[j - 1]
              /\ (bp_pos[j - 1] = 0 /\ bp_z[j] > PairEnter) => bp_pos[j] = -1
              /\ (bp_pos[j - 1] = 0 /\ bp_z[j] < -PairEnter) => bp_pos[j] = 1

\* C25: objective lowers the score only when the maximum drawdown is worse
\* than -80 %; with a drawdown between 0 % and -80 % (max_drawdown_pct = -5.0
\* for one) it returns the Sharpe value unchanged.
C25_PenaltyOnlyBeyond80 ==
    (obj_pc = "returned" /\ ~sharpe.nan /\ mdd >= -80 * One)
        => obj_ret = ObjValue(sharpe.v)

\* ------------------------------------------------- claims C26 to C30
\* C26: after every bar of backtest_strategy there is at most one open long
\* and at most one open short position.
C26_AtMostOnePerSide ==
    /\ Len(active_long) <= 1
    /\ Len(active_short) <= 1

\* An entry signal on a bar where the positions of an earlier entry were
\* still open: they were closed without a trade record and replaced.
C26_Witness ==
    /\ Len(dates) >= 2
    /\ Len(active_long) = 1
    /\ Len(active_short) = 1
    /\ trades_history = <<>>
    /\ active_long[1].start_date = Last(dates)
    /\ active_short[1].start_date = Last(dates)
    /\ invested_capital > active_long[1].cost + active_short[1].cost

\* C27: when the exit signal closes positions, the portfolio value recorded
\* for that bar, and the final value when the run ends there, are the cash
\* before the close plus the proceeds of the close.
C27_ProceedsStay ==
    \A j \in 1..Len(closes) :
        /\ portfolio_values[closes[j].bar] = closes[j].cash + closes[j].proceeds
        /\ (bs_pc \in {"done", "error"} /\ closes[j].bar = Len(dates))
              => final_value = closes[j].cash + closes[j].proceeds

\* C28: in the result, total_trades (winning_trades + losing_trades) is the
\* number of records in trades_history.
C28_StatsMatchLedger ==
    bs_pc = "done" =>
        /\ total_trades = winning_trades + losing_trades
        /\ total_trades = Len(trades_history)

\* C29: backtest_strategy never raises; when no trade was closed it returns
\* with win rate, average profit, average loss and average holding period 0.
C29_AlwaysReturns ==
    /\ bs_pc # "error"
    /\ (bs_pc = "done" /\ winning_trades + losing_trades = 0) =>
          /\ bs_win_rate = 0
          /\ avg_profit = 0
          /\ avg_loss = 0
          /\ avg_holding_period = 0

\* Bar j passed its risk check, so its portfolio value was recorded and
\* added to daily_pl.
Completed(cks, j) ==
    \E k \in 1..Len(cks) : cks[k].bar = j /\ ~cks[k].daily /\ ~cks[k].drawdown
\* The recorded change of the portfolio value over the bars before `bar`
\* that carry the date of `bar`.
SameDayPL(cks, ds, pvs, bar) ==
    SumInts([j \in 1..(bar - 1) |->
                IF j >= 2 /\ ds[j] = ds[bar] /\ Completed(cks, j)
                THEN pvs[j] - pvs[j - 1] ELSE 0])
OneBarPerDate(ds, bar) == \A j \in 1..(bar - 1) : ds[j] # ds[bar]

\* C30: the risk check of a bar uses the P/L accumulated on the earlier
\* bars of the same calendar date only; the bar is closed to trading when
\* that loss exceeds daily_loss_limit_pct of the initial capital; with one
\* bar per date daily_pl is 0 at the check and the limit does not block.
C30_DailyLossLimit ==
    [][checks' # checks =>
          LET c == Last(checks')
          IN  /\ c.daily_pl = SameDayPL(checks', dates', portfolio_values', c.bar)
              /\ c.daily = (c.daily_pl * One < -(InitialCapital * DailyLossLimitPct))
              /\ c.daily =>
                    /\ invested_capital' = invested_capital
                    /\ closes' = closes
                    /\ Len(active_long') <= Len(active_long)
                    /\ Len(active_short') <= Len(active_short)
              /\ OneBarPerDate(dates', c.bar) => (c.daily_pl = 0 /\ ~c.daily)
       ]_vars

\* A bar closed to trading by the daily loss limit alone, after a loss
\* recorded earlier on the same date.
C30_Witness ==
    /\ checks # <<>>
    /\ Last(checks).daily
    /\ ~Last(checks).drawdown
    /\ Last(checks).daily_pl < 0
    /\ Last(checks).bar = Len(dates)
    /\ Last(checks).bar >= 3

====
